---- MODULE Spec2Model ----
(***************************************************************************)
(* Model of scripts/sieve.py (class Sieve: a self-widening sieve of        *)
(* Eratosthenes with ordinal access to the primes) and of scripts/utils.py *)
(* (inverse: the binary-search pseudo-inverse, and sqrt, cbrt, log2).      *)
(*                                                                         *)
(* The list Sieve._sieve is the sequence `table`; Python index i is        *)
(* table[i+1].                                                             *)
(***************************************************************************)
EXTENDS Integers, Sequences, FiniteSets, TLC

VARIABLES
    table,      \* Sieve._sieve
    kept,       \* history: _sieve has never been shorter than it was constructed
    call,       \* the last call made on the sieve: <<name, arguments...>>
    ret,        \* what that call returned
    err,        \* the exception that call raised, "" when it returned
    inv,        \* the pseudo-inverse being called: its func, bound and domain
    x,          \* inv_function's argument
    left,       \* inv_function's locals
    right,
    increase,
    past,
    pc,         \* where inv_function is: "idle", "loop", "returned", "raised"
    out,        \* what inv_function returned
    exc,        \* the exception inv_function raised, "" if none
    iters       \* history: iterations of the while loop in this call

svars == <<table, kept, call, ret, err>>
ivars == <<inv, x, left, right, increase, past, pc, out, exc, iters>>
vars == <<svars, ivars>>

\* Python values that a call takes: the integer n is <<n>>, None is <<>>.
None == <<>>
PyInt(n) == <<n>>
IsInt(v) == Len(v) = 1
\* What a call returned, by the type of the value; Nothing when it raised.
RetBool(v) == [bool |-> v]
RetInt(v) == [int |-> v]
RetList(v) == [list |-> v]
RetNone == [none |-> TRUE]
Nothing == [raised |-> TRUE]

\* ------------------------------------------------------------------ bounds

\* How many times the table may double beyond its constructed length.
MaxDoublings == 1

\* sqrt, cbrt and log2 are called with arguments of magnitude up to MaxX.
MaxX == 12

\* Tabulated functions are given on -1..MaxArg and take values in 0..MaxVal.
MaxArg == 2
MaxVal == 3

\* ------------------------------------------------------------------ Sieve

BASIC_LIMIT == 1023

Max(a, b) == IF a >= b THEN a ELSE b

\* _sieve[i]
At(t, i) == t[i + 1]

\* Strike with range(begin + i, end, i): the first multiple is left standing.
StrikeAfterFirst(t, begin, end, i) ==
    IF begin + i >= end THEN t
    ELSE SubSeq(t, 1, begin + i)
         \o [k \in 1..(end - begin - i) |->
                IF (k - 1) % i = 0 THEN FALSE ELSE t[begin + i + k]]
         \o SubSeq(t, end + 1, Len(t))

\* for j in range(begin, end, i): t[j] = False        (end <= len(t))
\* The entries below begin and from end on are kept; of those between, every
\* i-th from begin on is cleared.
Strike(t, begin, end, i) ==
    IF begin >= end THEN t
    ELSE SubSeq(t, 1, begin)
         \o [k \in 1..(end - begin) |->
                IF (k - 1) % i = 0 THEN FALSE ELSE t[begin + k]]
         \o SubSeq(t, end + 1, Len(t))

\* The body of the constructor's outer loop for one i.
InitStep(t, i, length) ==
    IF ~At(t, i) THEN t ELSE Strike(t, i * i, length, i)

\* for i in range(a, b): InitStep, in ascending order of i: the first half of
\* the range, then the second half on the table the first half left. (The
\* test on Len(t) has TLC evaluate t before it descends, which keeps the
\* evaluation's depth logarithmic; an empty table has an empty loop.)
RECURSIVE InitLoop(_, _, _, _)
InitLoop(t, a, b, length) ==
    IF Len(t) = 0 \/ a >= b THEN t
    ELSE IF b - a = 1 THEN InitStep(t, a, length)
    ELSE LET m == (a + b) \div 2
         IN  InitLoop(InitLoop(t, a, m, length), m, b, length)

\* Sieve.__init__
Construct ==
    LET length == BASIC_LIMIT + 1
        t0 == <<FALSE, FALSE>> \o [k \in 1..(BASIC_LIMIT - 1) |-> TRUE]
    IN  InitLoop(t0, 0, length, length)

\* Begin without the max with i*i.
BeginAtFloor(i, length) == (length \div i) * i

\* begin = max(i*i, (length // i) * i)
Begin(i, length) == Max(i * i, (length \div i) * i)

\* The body of widen's outer loop for one i.
WidenStep(t, i, length) ==
    IF ~At(t, i) THEN t ELSE Strike(t, Begin(i, length), 2 * length, i)

\* for i in range(a, b): WidenStep, in ascending order of i, halved as InitLoop.
RECURSIVE WidenLoop(_, _, _, _)
WidenLoop(t, a, b, length) ==
    IF Len(t) = 0 \/ a >= b THEN t
    ELSE IF b - a = 1 THEN WidenStep(t, a, length)
    ELSE LET m == (a + b) \div 2
         IN  WidenLoop(WidenLoop(t, a, m, length), m, b, length)

\* Sieve.widen
widen(t) ==
    LET length == Len(t)
        t1 == t \o [k \in 1..length |-> TRUE]
    IN  WidenLoop(t1, 0, length, length)

\* Sieve.narrow
narrow(t) == SubSeq(t, 1, Len(t) \div 2)

\* The longest table the model lets the sieve grow to.
MaxLength == (BASIC_LIMIT + 1) * (2 ^ MaxDoublings)

\* while x >= len(_sieve): widen()
RECURSIVE Grow(_, _)
Grow(t, n) == IF n >= Len(t) THEN Grow(widen(t), n) ELSE t

\* Whether that loop ends with a table no longer than MaxLength. An empty
\* table never grows (0 + 0 = 0), so the loop does not end for it.
Covers(t, n) == n < Len(t) \/ (Len(t) > 0 /\ n < MaxLength)

\* ------------------------------------------------------------------ Sieve.__getitem__

\* The integers x in from..len(t)-1 for which prime(x) is true, ascending:
\* what filter(lambda x: self.prime(x), count(from)) yields before prime()
\* has to widen the table.
Reported(t, from) ==
    SelectSeq([k \in 1..(Len(t) - from) |-> from + k - 1], LAMBDA n : At(t, n))

\* The first n items of filter(lambda x: self.prime(x), count(2)), given
\* `found` of them already yielded from candidates below `from`, and the
\* table that yielding them leaves: prime(x) widens the table as soon as x
\* reaches its length. done is FALSE when the table would have to grow beyond
\* MaxLength (or cannot grow at all).
RECURSIVE Primes(_, _, _, _)
Primes(t, from, found, n) ==
    IF Len(found) >= n THEN [items |-> found, sieve |-> t, done |-> TRUE]
    ELSE LET here == Reported(t, from)
             need == n - Len(found)
         IN  IF Len(here) >= need
             THEN [items |-> found \o SubSeq(here, 1, need), sieve |-> t,
                   done |-> TRUE]
             ELSE IF Len(t) = 0 \/ 2 * Len(t) > MaxLength
             THEN [items |-> found \o here, sieve |-> t, done |-> FALSE]
             ELSE Primes(widen(t), Max(from, Len(t)), found \o here, n)

\* itertools.islice rejects these arguments when it is constructed.
ISliceRejects(start, stop, step) == start < 0 \/ stop < 0 \/ step < 1

\* How many items islice takes from its iterator.
ISliceConsumes(start, stop) == Max(start, stop)

\* The count items at the indices first, first + step, ..., one half of them
\* after the other.
RECURSIVE Pick(_, _, _, _)
Pick(items, first, count, step) ==
    IF count <= 0 THEN <<>>
    ELSE IF count = 1 THEN <<items[first + 1]>>
    ELSE LET h == count \div 2
         IN  Pick(items, first, h, step)
             \o Pick(items, first + h * step, count - h, step)

\* list(islice(items, start, stop, step)): the items at the indices start,
\* start + step, ... below stop (items holds at least the first stop of them).
ISlice(items, start, stop, step) ==
    Pick(items, start, (stop - start + step - 1) \div step, step)

\* result.reverse()
RECURSIVE Reverse(_)
Reverse(s) ==
    IF Len(s) <= 1 THEN s
    ELSE LET h == Len(s) \div 2
         IN  Reverse(SubSeq(s, h + 1, Len(s))) \o Reverse(SubSeq(s, 1, h))

\* Lines 185-199 of __getitem__, once start, stop and step are integers:
\* [kind |-> "return", value |-> the list, sieve |-> the table left], or
\* [kind |-> the exception], or [kind |-> "unfinished"] beyond MaxLength.
Fetch(t, start0, stop0, step0) ==
    LET decrease == start0 > stop0
        start == IF decrease THEN stop0 + 1 ELSE start0
        stop == IF decrease THEN start0 + 1 ELSE stop0
        step == IF decrease THEN step0 * (-1) ELSE step0
    IN  IF ISliceRejects(start, stop, step) THEN [kind |-> "ValueError"]
        ELSE LET got == Primes(t, 2, <<>>, ISliceConsumes(start, stop))
                 result == ISlice(got.items, start, stop, step)
             IN  IF ~got.done THEN [kind |-> "unfinished"]
                 ELSE [kind |-> "return",
                       value |-> RetList(IF decrease THEN Reverse(result)
                                                     ELSE result),
                       sieve |-> got.sieve]

\* The step a slice gets when it names none: 1 if start < stop else -1.
DefaultStep(start, stop) == IF start < stop THEN 1 ELSE -1

\* Lines 161-181: what a slice's start, stop and step become, or the
\* exception the checks raise. Comparing an integer with None raises TypeError.
Checked(start0, stop0, step0) ==
    LET start == IF start0 = None THEN PyInt(0) ELSE start0
    IN  IF step0 = None /\ stop0 = None THEN [kind |-> "TypeError"]
        ELSE LET step == IF step0 = None
                         THEN PyInt(DefaultStep(start[1], stop0[1]))
                         ELSE step0
             IN  IF ~IsInt(start) \/ ~IsInt(stop0) \/ ~IsInt(step)
                 THEN [kind |-> "TypeError"]
                 ELSE IF \/ start[1] < 0 \/ stop0[1] < 0
                         \/ (start[1] > stop0[1] /\ step[1] > 0)
                         \/ (start[1] < stop0[1] /\ step[1] < 0)
                 THEN [kind |-> "InfinityAccessError"]
                 ELSE [kind |-> "ok", start |-> start[1], stop |-> stop0[1],
                       step |-> step[1]]

\* What a call with outcome r returns, raises, and leaves as the table.
RetOf(r) == IF r.kind = "return" THEN r.value ELSE Nothing
ErrOf(r) == IF r.kind = "return" THEN "" ELSE r.kind
TableOf(r, t) == IF r.kind = "return" THEN r.sieve ELSE t

\* The access c ends with outcome r.
Finish(c, r) ==
    /\ r.kind # "unfinished"
    /\ call' = c
    /\ ret' = RetOf(r)
    /\ err' = ErrOf(r)
    /\ table' = TableOf(r, table)
    /\ UNCHANGED <<kept, ivars>>

\* result[0]
First(f) ==
    IF f.kind = "return"
    THEN [kind |-> "return", value |-> RetInt(f.value.list[1]), sieve |-> f.sieve]
    ELSE f

\* GetItemInt counting the ordinals from 1.
GetItemIntFromOne(k) ==
    Finish(<<"at", PyInt(k)>>, First(Fetch(table, k + 1, k + 2, 1)))

\* sieve[k] for an integer k: the first item of the range k, k + 1, 1
GetItemInt(k) ==
    Finish(<<"at", PyInt(k)>>, First(Fetch(table, k, k + 1, 1)))

\* The outcome of sieve[start:stop:step] on the table t.
SliceOutcome(t, start, stop, step) ==
    LET c == Checked(start, stop, step)
    IN  IF c.kind = "ok" THEN Fetch(t, c.start, c.stop, c.step) ELSE c

\* sieve[start:stop:step]
GetItemSlice(start, stop, step) ==
    Finish(<<"range", start, stop, step>>,
           SliceOutcome(table, start, stop, step))

\* sieve[arg] for an arg that is neither an integer nor a slice
GetItemOther ==
    Finish(<<"other">>, [kind |-> "TypeError"])

\* ------------------------------------------------------------------ inverse

\* The domain's `...`
Ellipsis == <<>>

\* One side of bound: an integer, or a function of the argument.
Const(n) == [const |-> n]
Of(name) == [of |-> name]

Abs(n) == IF n < 0 THEN 0 - n ELSE n

\* b(x) if callable(b) else b
EvalBound(b, n) ==
    IF "const" \in DOMAIN b THEN b.const
    ELSE CASE b.of = "x" -> n
           [] b.of = "abs" -> Abs(n)
           [] b.of = "negabs" -> 0 - Abs(n)

\* sqrt = inverse(lambda x: x*x, bound=(0, lambda x: x), domain=(0, ...))
sqrt ==
    [func |-> [n \in 0..MaxX |-> n * n],
     bound |-> <<Const(0), Of("x")>>,
     domain |-> <<PyInt(0), Ellipsis>>]

\* cbrt searching the non-negative integers only.
cbrtFromZero ==
    [func |-> [n \in (0 - MaxX)..MaxX |-> n * n * n],
     bound |-> <<Const(0), Of("abs")>>,
     domain |-> <<Ellipsis, Ellipsis>>]

\* cbrt = inverse(lambda x: x*x*x,
\*                bound=(lambda x: -abs(x), lambda x: abs(x)), domain=(..., ...))
cbrt ==
    [func |-> [n \in (0 - MaxX)..MaxX |-> n * n * n],
     bound |-> <<Of("negabs"), Of("abs")>>,
     domain |-> <<Ellipsis, Ellipsis>>]

\* log2 = inverse(lambda x: 2**x, bound=(0, lambda x: x), domain=(1, ...))
log2 ==
    [func |-> [n \in 0..MaxX |-> 2 ^ n],
     bound |-> <<Const(0), Of("x")>>,
     domain |-> <<PyInt(1), Ellipsis>>]

\* inverse(f, bound=(lo, hi)) for a tabulated f and integers lo, hi; the
\* domain is the default, (..., ...).
Tabulated(f, lo, hi) ==
    [func |-> f,
     bound |-> <<Const(lo), Const(hi)>>,
     domain |-> <<Ellipsis, Ellipsis>>]

TableArgs == (0 - 1)..MaxArg

\* The pseudo-inverses called.
Inverses ==
    {sqrt, cbrt, log2}
    \cup {Tabulated(f, lo, hi) :
            f \in [TableArgs -> 0..MaxVal], lo \in TableArgs, hi \in TableArgs}

\* The arguments a pseudo-inverse is called with.
ArgsOf(i) ==
    IF i = sqrt THEN (0 - 1)..MaxX
    ELSE IF i = cbrt THEN (0 - MaxX)..MaxX
    ELSE IF i = log2 THEN 0..MaxX
    ELSE 0..MaxVal

\* Line 60: x lies outside the domain.
OutsideDomain(d, n) ==
    \/ d[1] # Ellipsis /\ n < d[1][1]
    \/ d[2] # Ellipsis /\ n > d[2][1]

\* Mid rounding up.
MidCeil(l, r) == (l + r + 1) \div 2

\* mid = (left + right) // 2
Mid(l, r) == (l + r) \div 2

\* Narrowed with left = mid for left = mid + 1.
NarrowedToMid(l, r, mid, expected, n, inc) ==
    IF inc
    THEN IF expected < n THEN <<mid, r>> ELSE <<l, mid - 1>>
    ELSE IF expected < n THEN <<l, mid - 1>> ELSE <<mid, r>>

\* Lines 85-94: the pair (left, right) after an iteration that found
\* expected # x at mid.
Narrowed(l, r, mid, expected, n, inc) ==
    IF inc
    THEN IF expected < n THEN <<mid + 1, r>> ELSE <<l, mid - 1>>
    ELSE IF expected < n THEN <<l, mid - 1>> ELSE <<mid + 1, r>>

\* inv_function(x) up to the while loop: lines 55-76. x is an integer.
InvEnter ==
    /\ pc = "idle"
    /\ IF OutsideDomain(inv.domain, x)
       THEN /\ exc' = "DomainError"
            /\ pc' = "raised"
            /\ UNCHANGED <<left, right, increase, past>>
       ELSE LET l == EvalBound(inv.bound[1], x)
                r == EvalBound(inv.bound[2], x)
            IN  /\ left' = l
                /\ right' = r
                /\ increase' = (inv.func[l] < inv.func[r])
                /\ past' = <<l, r>>
                /\ exc' = ""
                /\ pc' = "loop"
    /\ UNCHANGED <<inv, x, out, iters, svars>>

\* One iteration of the while loop: lines 78-98.
InvIterate ==
    /\ pc = "loop"
    /\ left <= right
    /\ iters' = iters + 1
    /\ LET mid == Mid(left, right)
           expected == inv.func[mid]
           lr == Narrowed(left, right, mid, expected, x, increase)
       IN  IF expected = x
           THEN /\ out' = mid
                /\ pc' = "returned"
                /\ UNCHANGED <<left, right, past, exc>>
           ELSE /\ left' = lr[1]
                /\ right' = lr[2]
                /\ IF lr = past
                   THEN /\ exc' = "NothingFoundError"
                        /\ pc' = "raised"
                        /\ UNCHANGED past
                   ELSE /\ past' = lr
                        /\ UNCHANGED <<exc, pc>>
                /\ UNCHANGED out
    /\ UNCHANGED <<inv, x, increase, svars>>

\* The loop ends with left > right: line 100.
InvExit ==
    /\ pc = "loop"
    /\ left > right
    /\ out' = Mid(left, right)
    /\ pc' = "returned"
    /\ UNCHANGED <<inv, x, left, right, increase, past, exc, iters, svars>>

\* ------------------------------------------------------------------ reference

\* Primality by trial division.
RECURSIVE NoDivisorFrom(_, _)
NoDivisorFrom(n, d) ==
    IF d * d > n THEN TRUE
    ELSE IF n % d = 0 THEN FALSE
    ELSE NoDivisorFrom(n, d + 1)

IsPrime(n) == n >= 2 /\ NoDivisorFrom(n, 2)

\* The primes below MaxLength, computed once.
PrimesBelowMax == {n \in 0..(MaxLength - 1) : IsPrime(n)}

\* The primes below MaxLength in ascending order: PrimeSeq[k + 1] is the k-th
\* prime, counting from the 0-th, 2.
PrimeSeq == SelectSeq([k \in 1..MaxLength |-> k - 1], IsPrime)

\* Every entry of t tells the primality of its index.
Exact(t) == \A i \in 0..(Len(t) - 1) : At(t, i) = (i \in PrimesBelowMax)

\* ------------------------------------------------------------------ sieve calls

\* Arguments of prime(): None, -1..4 and around each table length.
PrimeArgs ==
    {None}
    \cup {PyInt(n) : n \in -1..4}
    \cup UNION {{PyInt(n - 3), PyInt(n), PyInt(n + 7)} :
                n \in {(BASIC_LIMIT + 1) * (2 ^ d) : d \in 0..MaxDoublings}}

\* Sieve.prime(x)
PrimeCall(n) ==
    LET closed == IF IsInt(n) THEN n[1] <= 1 ELSE TRUE
    IN  /\ IF closed THEN TRUE ELSE Covers(table, n[1])
        /\ table' = IF closed THEN table ELSE Grow(table, n[1])
        /\ ret' = RetBool(IF closed THEN FALSE ELSE At(table', n[1]))
        /\ call' = <<"prime", n>>
        /\ err' = ""
        /\ UNCHANGED <<kept, ivars>>

\* Sieve.widen()
WidenCall ==
    /\ 2 * Len(table) <= MaxLength
    /\ table' = widen(table)
    /\ call' = <<"widen">>
    /\ ret' = RetNone
    /\ err' = ""
    /\ UNCHANGED <<kept, ivars>>

\* Sieve.narrow()
NarrowCall ==
    /\ table' = narrow(table)
    /\ kept' = (kept /\ Len(table') >= BASIC_LIMIT + 1)
    /\ call' = <<"narrow">>
    /\ ret' = RetNone
    /\ err' = ""
    /\ UNCHANGED ivars

\* The sieve as constructed.
InitSieve ==
    /\ table = Construct
    /\ kept = TRUE
    /\ call = <<"init">>
    /\ ret = RetNone
    /\ err = ""

\* inv_function about to be called on n.
InitCall(i, n) ==
    /\ inv = i
    /\ x = n
    /\ left = 0
    /\ right = 0
    /\ increase = FALSE
    /\ past = <<0, 0>>
    /\ pc = "idle"
    /\ out = 0
    /\ exc = ""
    /\ iters = 0

Init == InitSieve /\ InitCall(sqrt, 0)

\* The sieve under prime(), widen() and narrow().
NextSieve ==
    \/ \E n \in PrimeArgs : PrimeCall(n)
    \/ WidenCall
    \/ NarrowCall

SpecSieve == Init /\ [][NextSieve]_vars

\* How many primes the constructed table holds: the first ordinal whose
\* prime lies beyond it.
BaseCount == Len(Reported(Construct, 2))

\* Small ordinals, one of them negative.
Ordinals == {-1, 0, 1, 4, 6}

Steps == {-2, -1, 0, 1, 2}

Omittable(S) == {None} \cup {PyInt(n) : n \in S}

\* The slices asked for: every combination of the small ordinals and steps,
\* each possibly omitted, and slices that reach beyond the constructed table.
SliceArgs ==
    (Omittable(Ordinals) \X Omittable(Ordinals) \X Omittable(Steps))
    \cup {<<PyInt(BaseCount - 2), PyInt(BaseCount + 2), PyInt(2)>>,
          <<None, PyInt(BaseCount + 1), None>>,
          <<PyInt(BaseCount + 1), PyInt(BaseCount - 2), PyInt(-1)>>,
          <<PyInt(BaseCount + 1), PyInt(BaseCount - 3), PyInt(-2)>>}

\* The sieve as constructed, under sieve[...] alone.
NextItem ==
    \/ \E k \in Ordinals \cup {BaseCount + 1} : GetItemInt(k)
    \/ \E a \in SliceArgs : GetItemSlice(a[1], a[2], a[3])
    \/ GetItemOther

SpecItem == Init /\ [][NextItem]_vars

\* One call of one of the pseudo-inverses, a loop iteration at a time.
InitInverse ==
    /\ InitSieve
    /\ \E i \in Inverses : \E n \in ArgsOf(i) : InitCall(i, n)

NextInverse ==
    \/ InvEnter
    \/ InvIterate
    \/ InvExit

SpecInverse == InitInverse /\ [][NextInverse]_vars

\* ------------------------------------------------------------------ claims

\* C1: while the table has never been shorter than its constructed length,
\* every entry tells the primality of its index (0 and 1 are not prime), and
\* prime(n) answers as trial division does, whatever growth it triggered.
SieveExact ==
    kept =>
        /\ Exact(table)
        /\ (call[1] = "prime" /\ IsInt(call[2]) =>
                ret = RetBool(IsPrime(call[2][1])))

\* A call that widened the table on its way.
SieveExactSeen ==
    /\ kept
    /\ call = <<"prime", PyInt(BASIC_LIMIT + 8)>>
    /\ ret = RetBool(TRUE)
    /\ Len(table) = 2 * (BASIC_LIMIT + 1)

\* C2: widen() makes the table exactly twice as long and changes no entry it
\* had; any growth, also the one prime(x) triggers, leaves the old entries as
\* they were, and with them every prime(i) for i below the old length.
GrowthStable ==
    [][/\ call'[1] = "widen" => Len(table') = 2 * Len(table)
       /\ Len(table') > Len(table) =>
            \A k \in 1..Len(table) : table'[k] = table[k]]_vars

GrowthStableSeen ==
    /\ call = <<"widen">>
    /\ Len(table) = 2 * (BASIC_LIMIT + 1)

\* The ordinals start, start + step, ... on the way to stop (stop excluded).
OrdinalsOf(start, stop, step) ==
    IF step > 0
    THEN {o \in start..(stop - 1) : (o - start) % step = 0}
    ELSE {o \in (stop + 1)..start : (start - o) % (-step) = 0}

\* s holds the primes at the ordinals start, start + step, ... before stop,
\* in that order.
IsRange(s, start, stop, step) ==
    /\ Len(s) = Cardinality(OrdinalsOf(start, stop, step))
    /\ \A j \in 1..Len(s) : s[j] = PrimeSeq[start + (j - 1) * step + 1]

\* The integer a slice component stands for, its default when it is None.
Given(v, default) == IF v = None THEN default ELSE v[1]

\* C3: sieve[k] for k >= 0 is the k-th prime, counting from sieve[0] = 2; and
\* sieve[start:stop:step] with 0 <= start < stop and step >= 1 (1 when
\* omitted, start 0 when omitted) is the list of the primes at the ordinals
\* start, start + step, ... below stop, ascending.
AscendingAccess ==
    /\ call[1] = "at" /\ call[2][1] >= 0 =>
            /\ err = ""
            /\ ret = RetInt(PrimeSeq[call[2][1] + 1])
    /\ (/\ call[1] = "range"
        /\ call[3] # None
        /\ 0 <= Given(call[2], 0)
        /\ Given(call[2], 0) < call[3][1]
        /\ Given(call[4], 1) >= 1) =>
            /\ err = ""
            /\ IsRange(ret.list, Given(call[2], 0), call[3][1], Given(call[4], 1))

\* An access that had to widen the table, and a stepped range.
AscendingAccessSeen ==
    /\ call = <<"range", PyInt(BaseCount - 2), PyInt(BaseCount + 2), PyInt(2)>>
    /\ err = ""
    /\ Len(ret.list) > 1
    /\ ret.list[Len(ret.list)] > BASIC_LIMIT
    /\ Len(table) = 2 * (BASIC_LIMIT + 1)

\* C4: sieve[start:stop:step] with start > stop >= 0 and step <= -1 is the
\* list of the primes at the ordinals start, start + step, ... above stop, in
\* that descending order.
DescendingAccess ==
    (/\ call[1] = "range"
     /\ call[2] # None /\ call[3] # None /\ call[4] # None
     /\ call[2][1] > call[3][1]
     /\ call[3][1] >= 0
     /\ call[4][1] <= -1) =>
        /\ err = ""
        /\ IsRange(ret.list, call[2][1], call[3][1], call[4][1])

\* C5: a range whose stop is omitted, whose start or stop is negative, or
\* whose step points away from stop raises InfinityAccessError.
RangeRejection ==
    (/\ call[1] = "range"
     /\ \/ call[3] = None
        \/ Given(call[2], 0) < 0
        \/ call[3][1] < 0
        \/ (call[4] # None /\ Given(call[2], 0) > call[3][1] /\ call[4][1] > 0)
        \/ (call[4] # None /\ Given(call[2], 0) < call[3][1] /\ call[4][1] < 0)) =>
        /\ err = "InfinityAccessError"
        /\ ret = Nothing

\* C6: sieve[k] for k < 0 raises InfinityAccessError.
NegativeIndexRejection ==
    call[1] = "at" /\ call[2][1] < 0 => err = "InfinityAccessError"

\* C7: sieve[s:s] for s >= 0 is the empty list, and raises nothing.
EmptyRange ==
    (/\ call[1] = "range"
     /\ call[2] # None /\ call[3] # None /\ call[4] = None
     /\ call[2] = call[3]
     /\ call[2][1] >= 0) =>
        /\ err = ""
        /\ ret = RetList(<<>>)

\* The evaluated bounds of the call.
Lo == EvalBound(inv.bound[1], x)
Hi == EvalBound(inv.bound[2], x)

\* The call is over.
Over == pc \in {"returned", "raised"}

StrictlyIncreasingOn(f, lo, hi) ==
    \A a \in lo..hi : \A b \in lo..hi : a < b => f[a] < f[b]

\* The largest m in lo..hi with f[m] <= n.
FloorOf(f, lo, hi, n) ==
    CHOOSE m \in lo..hi :
        /\ f[m] <= n
        /\ \A k \in lo..hi : f[k] <= n => k <= m

\* C8: for f strictly increasing on lo..hi, lo <= hi and f(lo) <= x <= f(hi),
\* with x in the domain, g(x) returns the largest n in lo..hi with f(n) <= x,
\* also when lo = hi; so sqrt(x)^2 <= x < (sqrt(x) + 1)^2 for x >= 0 and
\* 2^log2(x) <= x < 2^(log2(x) + 1) for x >= 1.
FlooredInverse ==
    Over =>
        /\ (/\ ~OutsideDomain(inv.domain, x)
            /\ Lo <= Hi
            /\ StrictlyIncreasingOn(inv.func, Lo, Hi)
            /\ inv.func[Lo] <= x
            /\ x <= inv.func[Hi]) =>
                /\ pc = "returned"
                /\ out = FloorOf(inv.func, Lo, Hi, x)
        /\ inv = sqrt /\ x >= 0 =>
                /\ pc = "returned"
                /\ out * out <= x
                /\ x < (out + 1) * (out + 1)
        /\ inv = log2 /\ x >= 1 =>
                /\ pc = "returned"
                /\ 2 ^ out <= x
                /\ x < 2 ^ (out + 1)

\* A tabulated f met no exact match and the search returned the floor.
FlooredInverseSeen ==
    /\ pc = "returned"
    /\ inv \notin {sqrt, cbrt, log2}
    /\ Lo < Hi
    /\ StrictlyIncreasingOn(inv.func, Lo, Hi)
    /\ inv.func[Lo] < x
    /\ x < inv.func[Hi]
    /\ inv.func[out] < x

\* C9 as stated: cbrt(x) for x < 0 is a negative r with |r^3| <= |x| and
\* |(r + 1)^3| > |x|.
CbrtTowardsZero ==
    inv = cbrt /\ x < 0 /\ Over =>
        /\ pc = "returned"
        /\ out < 0
        /\ Abs(out * out * out) <= Abs(x)
        /\ Abs((out + 1) * (out + 1) * (out + 1)) > Abs(x)

\* C9 as amended: cbrt(x) for x < 0 is a negative r with r^3 <= x < (r + 1)^3,
\* the floor of the real cube root.
CbrtFloor ==
    inv = cbrt /\ x < 0 /\ Over =>
        /\ pc = "returned"
        /\ out < 0
        /\ out * out * out <= x
        /\ x < (out + 1) * (out + 1) * (out + 1)

\* cbrt of a negative that is no cube.
CbrtFloorSeen ==
    /\ inv = cbrt
    /\ pc = "returned"
    /\ x < 0
    /\ out * out * out < x

Bends(f) ==
    \E a \in DOMAIN f : \E b \in DOMAIN f : \E c \in DOMAIN f :
        /\ a < b /\ b < c
        /\ \/ f[a] < f[b] /\ f[b] > f[c]
           \/ f[a] > f[b] /\ f[b] < f[c]

====
